---------------------------- MODULE Spec2Model ----------------------------
(***************************************************************************)
(* Model of the appgo request-dispatch engine, src/server/handler.go:      *)
(* registration (newHandler, newHttpFunc), the versioned dispatcher        *)
(* (handler.ServeHTTP, lines 324-442), the authenticator (authByHeader)    *)
(* and the metrics collector (addMetrics).                                 *)
(*                                                                         *)
(* Go strings are modelled as sequences of one-character strings, so that  *)
(* concatenation, decimal formatting and parsing are computed and not      *)
(* assumed.                                                                *)
(***************************************************************************)
EXTENDS Integers, Sequences, FiniteSets, TLC

\* ------------------------------------------------------------------ bounds
\* Number of concurrent request workers of the host server in the model.
NumProcs == 2
\* Largest value the "all" request counter reaches before arrivals stop.
MaxCount == 2

\* --------------------------------------------------------------- constants
UserIdFieldName == "UserId__"
AdminUserIdFieldName == "AdminUserId__"
ResIdFieldName == "ResourceId__"
ContentFieldName == "Content__"
RequestFieldName == "Request__"
ConfVerFieldName == "ConfVer__"
\* A non-reserved field of the input struct, filled from the query string.
PageFieldName == "Page"

maxVersion == 99

HandlerTypeJson == 1
HandlerTypeHtml == 2

ECodeOK == 20000
ECodeBadRequest == 40000
ECodeUnauthorized == 40100
ECodeForbidden == 40300
ECodeNotFound == 40400
ECodeInternal == 50000
ECode3rdPartyAuthFailed == 50300
\* appgo.ECodeRedirect, appgo.AnonymousId and appgo.RoleWebAdmin are defined in
\* the appgo package outside src/; only their distinctness matters here.
ECodeRedirect == 30200
AnonymousId == 999
RoleWebAdmin == 2
\* Some role that is not the web-admin role.
RoleUser == RoleWebAdmin + 1

\* ----------------------------------------------------------------- strings
GET == <<"G", "E", "T">>
POST == <<"P", "O", "S", "T">>
PUT == <<"P", "U", "T">>
DELETE == <<"D", "E", "L", "E", "T", "E">>
HTML == <<"H", "T", "M", "L">>
PATCH == <<"P", "A", "T", "C", "H">>

DigitChars == <<"0", "1", "2", "3", "4", "5", "6", "7", "8", "9">>

IsDigit(c) == \E d \in 1..10 : DigitChars[d] = c

DigitVal(c) == (CHOOSE d \in 1..10 : DigitChars[d] = c) - 1

\* strutil.FromInt: the decimal representation of an int (strconv.Itoa).
RECURSIVE FromNat(_)
FromNat(n) == IF n < 10 THEN <<DigitChars[n + 1]>>
              ELSE FromNat(n \div 10) \o <<DigitChars[(n % 10) + 1]>>

FromInt(n) == IF n < 0 THEN <<"-">> \o FromNat(0 - n) ELSE FromNat(n)

RECURSIVE DigitsVal(_, _)
DigitsVal(s, acc) == IF s = <<>> THEN acc
                     ELSE DigitsVal(Tail(s), acc * 10 + DigitVal(Head(s)))

AllDigits(s) == s # <<>> /\ \A k \in 1..Len(s) : IsDigit(s[k])

\* strutil.ToInt / strutil.ToInt64 / appgo.IdFromStr: parse a decimal integer,
\* 0 when the string is empty or is not a number.
ParseInt(s) ==
    IF AllDigits(s) THEN DigitsVal(s, 0)
    ELSE IF s # <<>> /\ Head(s) = "-" /\ AllDigits(Tail(s)) THEN 0 - DigitsVal(Tail(s), 0)
    ELSE 0

ToInt(s) == ParseInt(s)

ToInt64(s) == ParseInt(s)

IdFromStr(s) == ParseInt(s)

\* strings.IndexByte(s, c): index (from 0) of the first c in s, -1 if none.
IndexByte(s, c) ==
    IF \E k \in 1..Len(s) : s[k] = c
    THEN (CHOOSE k \in 1..Len(s) : s[k] = c /\ \A j \in 1..(k - 1) : s[j] # c) - 1
    ELSE 0 - 1

\* strings.Replace(s, old, new, -1) for one-character old and new.
Replace(s, old, new) == [k \in 1..Len(s) |-> IF s[k] = old THEN new ELSE s[k]]

\* ------------------------------------------------------------ registration
\* The reflected type of one method of a handler set: the number of
\* parameters, whether the parameter is a pointer, whether it is
\* *appgo.DummyInput, the kinds of the fields of the pointed-to struct (by
\* field name), the allowAnonymous tag of UserId__ and whether Request__
\* points to http.Request.
NoFields == [f \in {} |-> "Int64"]

httpFunc(requireAuth, requireAdmin, hasResId, hasContent, hasRequest, hasConfVer, dummyInput, allowAnonymous, inputType, contentType, funcValue) ==
    [requireAuth |-> requireAuth, requireAdmin |-> requireAdmin,
     hasResId |-> hasResId, hasContent |-> hasContent,
     hasRequest |-> hasRequest, hasConfVer |-> hasConfVer,
     dummyInput |-> dummyInput, allowAnonymous |-> allowAnonymous,
     inputType |-> inputType, contentType |-> contentType,
     funcValue |-> funcValue]

NoFunc == httpFunc(FALSE, FALSE, FALSE, FALSE, FALSE, FALSE, FALSE, FALSE,
                   NoFields, "", <<>>)

HasField(t, name) == name \in DOMAIN t

\* newHttpFunc: [err, found, fun]; err # "" is the returned error, found = FALSE
\* with err = "" is the (nil, nil) return.
newHttpFunc(structVal, fieldName) ==
    IF fieldName \notin DOMAIN structVal
    THEN [err |-> "", found |-> FALSE, fun |-> NoFunc]
    ELSE
    LET ftype == structVal[fieldName]
        t == ftype.fields
        bad(msg) == [err |-> msg, found |-> FALSE, fun |-> NoFunc]
    IN  IF ftype.numIn # 1 THEN bad("API func needs to have exact 1 parameter")
        ELSE IF ~ftype.isPtr THEN bad("API func's parameter needs to be a pointer")
        ELSE IF HasField(t, UserIdFieldName) /\ t[UserIdFieldName] # "Int64"
        THEN bad("API func's 2nd parameter needs to be Int64")
        ELSE IF HasField(t, AdminUserIdFieldName) /\ t[AdminUserIdFieldName] # "Int64"
        THEN bad("API func's 2nd parameter needs to be Int64")
        ELSE IF HasField(t, ResIdFieldName) /\ t[ResIdFieldName] # "Int64"
        THEN bad("ResId needs to be Int64")
        ELSE IF HasField(t, ContentFieldName) /\ t[ContentFieldName] # "Ptr"
        THEN bad("Content needs to be a pointer")
        ELSE IF HasField(t, RequestFieldName)
                /\ (t[RequestFieldName] # "Ptr" \/ ~ftype.requestIsHttp)
        THEN bad("Request needs to be a pointer to http.Request")
        ELSE IF HasField(t, ConfVerFieldName) /\ t[ConfVerFieldName] # "Int64"
        THEN bad("ConfVer needs to be Int64")
        ELSE [err |-> "", found |-> TRUE,
              fun |-> httpFunc(HasField(t, UserIdFieldName),
                               HasField(t, AdminUserIdFieldName),
                               HasField(t, ResIdFieldName),
                               HasField(t, ContentFieldName),
                               HasField(t, RequestFieldName),
                               HasField(t, ConfVerFieldName),
                               ftype.dummy,
                               HasField(t, UserIdFieldName) /\ ftype.anonTag,
                               t,
                               IF HasField(t, ContentFieldName)
                               THEN t[ContentFieldName] ELSE "",
                               fieldName)]

NoFuncs == [k \in {} |-> NoFunc]

\* The inner loop of newHandler (lines 516-526) from version i on, with the
\* loop variable m as the code leaves it after each iteration.
RECURSIVE versionLoop(_, _, _, _)
versionLoop(structVal, m, i, acc) ==
    IF i > maxVersion \/ acc.err # "" THEN acc
    ELSE LET m2 == IF i > 1 THEN m \o FromInt(i) ELSE m
             r == newHttpFunc(structVal, m2)
         IN  versionLoop(structVal, m2, i + 1,
                 IF r.err # "" THEN [acc EXCEPT !.err = r.err]
                 ELSE IF r.found
                 THEN [acc EXCEPT !.funcs = (m2 :> r.fun) @@ acc.funcs,
                                  !.supports = Append(acc.supports, m2)]
                 ELSE acc)

\* The outer loop of newHandler (lines 514-527) over the verbs.
RECURSIVE verbLoop(_, _, _)
verbLoop(structVal, methods, acc) ==
    IF methods = <<>> \/ acc.err # "" THEN acc
    ELSE verbLoop(structVal, Tail(methods),
                  versionLoop(structVal, Head(methods), 1, acc))

NoHandler == [htype |-> 0, path |-> <<>>, template |-> <<>>,
              funcs |-> NoFuncs, supports |-> <<>>]

newHandler_noSupportsCheck(funcSet, htype) ==
    LET fail(msg) == [panic |-> msg, h |-> NoHandler]
        structVal == funcSet.methods
    IN  IF ~funcSet.hasMeta THEN fail("Bad META setting (path, template)")
        ELSE IF funcSet.path = <<>> THEN fail("Empty API path")
        ELSE
        LET template == IF htype = HandlerTypeHtml THEN funcSet.template ELSE <<>>
            mk(funcs, supports) ==
                [panic |-> "",
                 h |-> [htype |-> htype, path |-> funcSet.path,
                        template |-> template, funcs |-> funcs,
                        supports |-> supports]]
        IN  IF htype = HandlerTypeJson
            THEN LET acc == verbLoop(structVal, <<GET, POST, PUT, DELETE>>,
                                     [funcs |-> NoFuncs, supports |-> <<>>, err |-> ""])
                 IN  IF acc.err # "" THEN fail(acc.err)
                     ELSE mk(acc.funcs, acc.supports)
            ELSE IF htype = HandlerTypeHtml
            THEN LET r == newHttpFunc(structVal, HTML)
                 IN  IF r.err # "" THEN fail(r.err)
                     ELSE IF ~r.found THEN fail("No HTML function for html")
                     ELSE mk((GET :> r.fun), <<>>)
            ELSE fail("Bad handler type")

\* newHandler: [panic, h]; panic # "" is the message of log.Panicln.
newHandler(funcSet, htype) ==
    LET fail(msg) == [panic |-> msg, h |-> NoHandler]
        structVal == funcSet.methods
    IN  IF ~funcSet.hasMeta THEN fail("Bad META setting (path, template)")
        ELSE IF funcSet.path = <<>> THEN fail("Empty API path")
        ELSE
        LET template == IF htype = HandlerTypeHtml THEN funcSet.template ELSE <<>>
            mk(funcs, supports) ==
                [panic |-> "",
                 h |-> [htype |-> htype, path |-> funcSet.path,
                        template |-> template, funcs |-> funcs,
                        supports |-> supports]]
        IN  IF htype = HandlerTypeJson
            THEN LET acc == verbLoop(structVal, <<GET, POST, PUT, DELETE>>,
                                     [funcs |-> NoFuncs, supports |-> <<>>, err |-> ""])
                 IN  IF acc.err # "" THEN fail(acc.err)
                     ELSE IF Len(acc.supports) = 0
                     THEN fail("API supports no HTTP method")
                     ELSE mk(acc.funcs, acc.supports)
            ELSE IF htype = HandlerTypeHtml
            THEN LET r == newHttpFunc(structVal, HTML)
                 IN  IF r.err # "" THEN fail(r.err)
                     ELSE IF ~r.found THEN fail("No HTML function for html")
                     ELSE mk((GET :> r.fun), <<>>)
            ELSE fail("Bad handler type")

\* ------------------------------------------------------------ collaborators
\* auth.Token.Validate: the local decoding of a token to (user, role); user 0
\* when the token is absent or does not decode.
TokenValidate(token) ==
    CASE token = "tokU" -> [user |-> 7, role |-> RoleUser]
      [] token = "tokA" -> [user |-> 8, role |-> RoleWebAdmin]
      [] token = "tokZ" -> [user |-> 0, role |-> RoleWebAdmin]
      [] OTHER -> [user |-> 0, role |-> 0]

\* schema.Decoder.Decode with IgnoreUnknownKeys(true) (line 305): every query
\* key that names an integer field of the input struct is parsed into it, a
\* value that is not a number is a conversion error, other keys are ignored.
Decode(t, query) ==
    LET known == {k \in DOMAIN query : k \in DOMAIN t /\ t[k] = "Int64"}
    IN  [err |-> \E k \in known : ~AllDigits(query[k]),
         s |-> [k \in DOMAIN t |->
                   IF k \in known /\ AllDigits(query[k]) THEN ParseInt(query[k]) ELSE 0]]

\* ------------------------------------------------------------- the request
NoInput == [nil |-> TRUE, s |-> [k \in {} |-> 0]]

NoResp == [kind |-> "none", code |-> 0, msg |-> "", data |-> "", tmpl |-> ""]

NilErr == [kind |-> "nil", code |-> 0, msg |-> ""]

ApiErr(code, msg) == [kind |-> "api", code |-> code, msg |-> msg]

\* An error value that is not an *appgo.ApiError.
OtherErr(msg) == [kind |-> "other", code |-> 0, msg |-> msg]

NoRet == [rl |-> 0, data |-> "", tmpl |-> "", err |-> NilErr]

\* No body has been decoded.
NoBody == [ok |-> FALSE, val |-> 0]

\* The request r of one ServeHTTP call: verb, version header, query string,
\* token header, path id, the outcome of decoding the body, config-version
\* header and request URI; tsOk is what the token store answers for the token.
NoRequest ==
    [method |-> <<>>, version |-> <<>>, query |-> [k \in {} |-> <<>>],
     token |-> "", tsOk |-> FALSE, id |-> <<>>, body |-> NoBody,
     confVer |-> <<>>, uri |-> <<>>]

\* The state of one ServeHTTP call: its position, what it has read of the
\* request, its locals (f, input), what it has called and what it has written.
IdleCtx ==
    [pc |-> "idle", Method |-> <<>>, URI |-> <<>>, ver |-> 0, key |-> <<>>,
     found |-> FALSE, f |-> NoFunc, input |-> NoInput, qinput |-> NoInput,
     authCalls |-> 0, token |-> "", user |-> 0, role |-> 0, tsCalls |-> 0,
     tsAnswer |-> FALSE, idReads |-> 0, idVar |-> <<>>, id |-> 0, bodyReads |-> 0,
     body |-> NoBody, r |-> NoRequest,
     invoked |-> 0, called |-> <<>>, args |-> NoInput, writesAtCall |-> 0,
     ret |-> NoRet, resp |-> NoResp, writes |-> 0,
     amKey |-> <<>>, amOk |-> FALSE]

newCtx(method) == [IdleCtx EXCEPT !.pc = "lookup", !.Method = method]

\* map[string]string{} as it is rendered.
EmptyObject == "{}"

\* h.renderError(w, aerr) followed by return.
renderError(c, code, msg) ==
    [c EXCEPT !.resp = [kind |-> "error", code |-> code, msg |-> msg,
                        data |-> "", tmpl |-> ""],
              !.writes = @ + 1, !.pc = "defer"]

\* h.renderData(w, v)
renderData(c, v) ==
    [c EXCEPT !.resp = [kind |-> "data", code |-> 0, msg |-> "", data |-> v,
                        tmpl |-> ""],
              !.writes = @ + 1, !.pc = "defer"]

\* h.renderHtml(w, template, v)
renderHtml(c, template, v) ==
    [c EXCEPT !.resp = [kind |-> "html", code |-> 0, msg |-> "", data |-> v,
                        tmpl |-> template],
              !.writes = @ + 1, !.pc = "defer"]

\* http.Redirect(w, r, url, http.StatusFound) followed by return.
redirect(c, url) ==
    [c EXCEPT !.resp = [kind |-> "redirect", code |-> 0, msg |-> url, data |-> "",
                        tmpl |-> ""],
              !.writes = @ + 1, !.pc = "defer"]

SetField(c, name, v) == [c EXCEPT !.input.s[name] = v]

\* ---------------------------------------------------------- authByHeader
authByHeader_noStore(token, tsOk) ==
    LET d == TokenValidate(token)
    IN  IF d.user = 0 THEN [user |-> 0, role |-> 0, tsCalls |-> 0, tsAnswer |-> FALSE]
        ELSE [user |-> d.user, role |-> d.role, tsCalls |-> 0, tsAnswer |-> FALSE]

\* authByHeader: tsOk is what the token store's Validate(token) answers when
\* it is called; tsCalls counts its calls and tsAnswer is the answer received.
authByHeader(token, tsOk) ==
    LET d == TokenValidate(token)
    IN  IF d.user = 0 THEN [user |-> 0, role |-> 0, tsCalls |-> 0, tsAnswer |-> FALSE]
        ELSE IF ~tsOk THEN [user |-> 0, role |-> 0, tsCalls |-> 1, tsAnswer |-> FALSE]
        ELSE [user |-> d.user, role |-> d.role, tsCalls |-> 1, tsAnswer |-> TRUE]

apiVersionFromHeader(v) == ToInt(v)

confVersionFromHeader(v) == ToInt64(v)

\* ------------------------------------------------------ ServeHTTP, by step
methodKey_anyVersion(method, ver) ==
    IF ver > 1 THEN method \o FromInt(ver) ELSE method

methodKey_noVersion(method, ver) == method

\* Lines 327-331: the method key of a request.
methodKey(method, ver) ==
    IF ver > 1 /\ ver <= maxVersion THEN method \o FromInt(ver) ELSE method

\* Lines 327-338: version resolution and binding lookup.
lookupStep(c, hh, verHeader) ==
    IF c.pc # "lookup" THEN c
    ELSE LET ver == apiVersionFromHeader(verHeader)
             method == methodKey(c.Method, ver)
             c1 == [c EXCEPT !.ver = ver, !.key = method]
         IN  IF method \notin DOMAIN hh.funcs
             THEN renderError(c1, ECodeNotFound, "Bad API version")
             ELSE [c1 EXCEPT !.found = TRUE, !.f = hh.funcs[method], !.pc = "decode"]

decodeStep_noReturn(c, query) ==
    IF c.pc # "decode" THEN c
    ELSE IF c.f.dummyInput THEN [c EXCEPT !.input = NoInput, !.pc = "auth"]
    ELSE LET d == Decode(c.f.inputType, query)
         IN  IF d.err
             THEN [renderError([c EXCEPT !.input = [nil |-> FALSE, s |-> d.s]],
                               ECodeBadRequest, "schema: conversion error")
                      EXCEPT !.pc = "auth"]
             ELSE [c EXCEPT !.input = [nil |-> FALSE, s |-> d.s],
                            !.qinput = [nil |-> FALSE, s |-> d.s], !.pc = "auth"]

\* Lines 339-348: the input instance and the query decoding.
decodeStep(c, query) ==
    IF c.pc # "decode" THEN c
    ELSE IF c.f.dummyInput THEN [c EXCEPT !.input = NoInput, !.pc = "auth"]
    ELSE LET d == Decode(c.f.inputType, query)
         IN  IF d.err THEN renderError(c, ECodeBadRequest, "schema: conversion error")
             ELSE [c EXCEPT !.input = [nil |-> FALSE, s |-> d.s],
                            !.qinput = [nil |-> FALSE, s |-> d.s], !.pc = "auth"]

UnauthorizedUserMsg == "either remove UserId__ in your input define, or add allowAnonymous tag"

UnauthorizedAdminMsg == "admin role required, you could remove AdminUserId__ in your input define"

authorized(c, token, a) ==
    [c EXCEPT !.authCalls = @ + 1, !.token = token, !.user = a.user, !.role = a.role,
              !.tsCalls = @ + a.tsCalls, !.tsAnswer = a.tsAnswer]

authStep_anonymousAlways(c, token, tsOk) ==
    IF c.pc # "auth" THEN c
    ELSE IF c.f.requireAuth
    THEN LET c1 == authorized(c, token, authByHeader(token, tsOk))
         IN  [SetField(c1, UserIdFieldName,
                       IF c1.user = 0 THEN AnonymousId ELSE c1.user) EXCEPT !.pc = "resid"]
    ELSE [c EXCEPT !.pc = "resid"]

authStep_keepsQueryValue(c, token, tsOk) ==
    IF c.pc # "auth" THEN c
    ELSE IF c.f.requireAuth
    THEN LET c1 == authorized(c, token, authByHeader(token, tsOk))
         IN  IF c1.user = 0
             THEN IF c.f.allowAnonymous THEN [c1 EXCEPT !.pc = "resid"]
                  ELSE renderError(c1, ECodeUnauthorized, UnauthorizedUserMsg)
             ELSE [SetField(c1, UserIdFieldName, c1.user) EXCEPT !.pc = "resid"]
    ELSE [c EXCEPT !.pc = "resid"]

\* Lines 349-377: authentication, or else the admin check.
authStep(c, token, tsOk) ==
    IF c.pc # "auth" THEN c
    ELSE IF c.f.requireAuth
    THEN LET c1 == authorized(c, token, authByHeader(token, tsOk))
         IN  IF c1.user = 0
             THEN IF c.f.allowAnonymous
                  THEN [SetField(c1, UserIdFieldName, AnonymousId) EXCEPT !.pc = "resid"]
                  ELSE renderError(c1, ECodeUnauthorized, UnauthorizedUserMsg)
             ELSE [SetField(c1, UserIdFieldName, c1.user) EXCEPT !.pc = "resid"]
    ELSE IF c.f.requireAdmin
    THEN LET c1 == authorized(c, token, authByHeader(token, tsOk))
         IN  IF c1.user = 0 \/ c1.role # RoleWebAdmin
             THEN renderError(c1, ECodeUnauthorized, UnauthorizedAdminMsg)
             ELSE [SetField(c1, AdminUserIdFieldName, c1.user) EXCEPT !.pc = "resid"]
    ELSE [c EXCEPT !.pc = "resid"]

ResIdMsg == "ResourceId ('{id}' in url) required, you could remove ResourceId__ in your input define"

resIdStep_noZeroCheck(c, idVar) ==
    IF c.pc # "resid" THEN c
    ELSE IF c.f.hasResId
    THEN LET id == IdFromStr(idVar)
         IN  [SetField([c EXCEPT !.idReads = @ + 1, !.idVar = idVar, !.id = id],
                       ResIdFieldName, id)
                 EXCEPT !.pc = "content"]
    ELSE [c EXCEPT !.pc = "content"]

resIdStep_noReturn(c, idVar) ==
    IF c.pc # "resid" THEN c
    ELSE IF c.f.hasResId
    THEN LET id == IdFromStr(idVar)
             c1 == [c EXCEPT !.idReads = @ + 1, !.idVar = idVar, !.id = id]
         IN  IF id = 0
             THEN [renderError(c1, ECodeNotFound, ResIdMsg) EXCEPT !.pc = "content"]
             ELSE [SetField(c1, ResIdFieldName, id) EXCEPT !.pc = "content"]
    ELSE [c EXCEPT !.pc = "content"]

\* Lines 378-390: the resource id; idVar is mux.Vars(r)["id"].
resIdStep(c, idVar) ==
    IF c.pc # "resid" THEN c
    ELSE IF c.f.hasResId
    THEN LET id == IdFromStr(idVar)
             c1 == [c EXCEPT !.idReads = @ + 1, !.idVar = idVar, !.id = id]
         IN  IF id = 0 THEN renderError(c1, ECodeNotFound, ResIdMsg)
             ELSE [SetField(c1, ResIdFieldName, id) EXCEPT !.pc = "content"]
    ELSE [c EXCEPT !.pc = "content"]

contentStep_ignoresDecodeError(c, body) ==
    IF c.pc # "content" THEN c
    ELSE IF c.f.hasContent
    THEN LET c1 == [c EXCEPT !.bodyReads = @ + 1, !.body = body]
         IN  IF ~body.ok THEN [c1 EXCEPT !.pc = "inject"]
             ELSE [SetField(c1, ContentFieldName, body.val) EXCEPT !.pc = "inject"]
    ELSE [c EXCEPT !.pc = "inject"]

\* Lines 391-400: the content body; body is the outcome of decoding r.Body
\* as JSON into the content type (ok: no error; val: the decoded value).
contentStep(c, body) ==
    IF c.pc # "content" THEN c
    ELSE IF c.f.hasContent
    THEN LET c1 == [c EXCEPT !.bodyReads = @ + 1, !.body = body]
         IN  IF ~body.ok THEN renderError(c1, ECodeBadRequest, "json: cannot decode")
             ELSE [SetField(c1, ContentFieldName, body.val) EXCEPT !.pc = "inject"]
    ELSE [c EXCEPT !.pc = "inject"]

\* Lines 401-411: the raw request (identified by its worker) and the
\* client's config version.
injectStep(c, i, confVerHeader) ==
    IF c.pc # "inject" THEN c
    ELSE LET c1 == IF c.f.hasRequest THEN SetField(c, RequestFieldName, i) ELSE c
             c2 == IF c.f.hasConfVer
                   THEN SetField(c1, ConfVerFieldName, confVersionFromHeader(confVerHeader))
                   ELSE c1
         IN  [c2 EXCEPT !.pc = "invoke"]

invokeStep_redirectAnyMode(c, hh, ret) ==
    IF c.pc # "invoke" THEN c
    ELSE LET c1 == [c EXCEPT !.invoked = @ + 1, !.called = c.f.funcValue,
                             !.args = c.input, !.writesAtCall = c.writes,
                             !.ret = ret]
             rl == ret.rl
         IN  IF ~(rl = 1 \/ rl = 2 \/ (rl = 3 /\ hh.htype = HandlerTypeHtml))
             THEN renderError(c1, ECodeInternal, "Bad api-func format")
             ELSE IF ret.err.kind = "nil"
             THEN IF rl = 3 THEN renderHtml(c1, ret.tmpl, ret.data)
                  ELSE IF rl = 2 THEN renderData(c1, ret.data)
                  ELSE renderData(c1, EmptyObject)
             ELSE IF ret.err.kind # "api"
             THEN [c1 EXCEPT !.pc = "defer"]
             ELSE IF ret.err.code = ECodeRedirect
             THEN redirect(c1, ret.err.msg)
             ELSE renderError(c1, ret.err.code, ret.err.msg)

invokeStep_rendersDataFirst(c, hh, ret) ==
    IF c.pc # "invoke" THEN c
    ELSE LET c1 == [c EXCEPT !.invoked = @ + 1, !.called = c.f.funcValue,
                             !.args = c.input, !.writesAtCall = c.writes,
                             !.ret = ret]
             rl == ret.rl
         IN  IF ~(rl = 1 \/ rl = 2 \/ (rl = 3 /\ hh.htype = HandlerTypeHtml))
             THEN renderError(c1, ECodeInternal, "Bad api-func format")
             ELSE IF ret.err.kind = "nil" \/ rl = 2
             THEN IF rl = 3 THEN renderHtml(c1, ret.tmpl, ret.data)
                  ELSE IF rl = 2 THEN renderData(c1, ret.data)
                  ELSE renderData(c1, EmptyObject)
             ELSE IF ret.err.kind # "api"
             THEN [c1 EXCEPT !.pc = "defer"]
             ELSE IF hh.htype = HandlerTypeHtml /\ ret.err.code = ECodeRedirect
             THEN redirect(c1, ret.err.msg)
             ELSE renderError(c1, ret.err.code, ret.err.msg)

\* Lines 412-441: the call of the bound function and the rendering of what it
\* returns (ret).
invokeStep(c, hh, ret) ==
    IF c.pc # "invoke" THEN c
    ELSE LET c1 == [c EXCEPT !.invoked = @ + 1, !.called = c.f.funcValue,
                             !.args = c.input, !.writesAtCall = c.writes,
                             !.ret = ret]
             rl == ret.rl
         IN  IF ~(rl = 1 \/ rl = 2 \/ (rl = 3 /\ hh.htype = HandlerTypeHtml))
             THEN renderError(c1, ECodeInternal, "Bad api-func format")
             ELSE IF ret.err.kind = "nil"
             THEN IF rl = 3 THEN renderHtml(c1, ret.tmpl, ret.data)
                  ELSE IF rl = 2 THEN renderData(c1, ret.data)
                  ELSE renderData(c1, EmptyObject)
             ELSE IF ret.err.kind # "api"
             THEN [c1 EXCEPT !.pc = "defer"]
             ELSE IF hh.htype = HandlerTypeHtml /\ ret.err.code = ECodeRedirect
             THEN redirect(c1, ret.err.msg)
             ELSE renderError(c1, ret.err.code, ret.err.msg)

\* ------------------------------------------------------------- addMetrics
ALL == <<"a", "l", "l">>

NoCounters == [k \in {} |-> 0]

\* Lines 450-455: the key of a request in metrics_query_count.
metricsKey(method, uri) ==
    LET i == IndexByte(uri, "?")
        path == IF i > 0 THEN SubSeq(uri, 1, i) ELSE uri
    IN  method \o Replace(path, "/", "_")

\* The steps of addMetrics act on w = [c, dur, mqc, reg, fatal]: the call's
\* state c, metrics_req_dur (the number of observations), metrics_query_count
\* (key to the value of its counter), the collectors registered with the
\* metrics backend (name to the number of NewCounterFrom calls), and whether
\* the runtime has stopped the process.

\* Lines 445-455.
amEnter(w, en, uri) ==
    IF w.c.pc # "defer" THEN w
    ELSE IF ~en THEN [w EXCEPT !.c.pc = "done"]
    ELSE [w EXCEPT !.dur = @ + 1, !.c.URI = uri,
                   !.c.amKey = metricsKey(w.c.Method, uri), !.c.pc = "am_lookup"]

\* Line 456: _, ok := metrics_query_count[key]
amLookup(w) ==
    IF w.c.pc # "am_lookup" THEN w
    ELSE LET ok == w.c.amKey \in DOMAIN w.mqc
         IN  [w EXCEPT !.c.amOk = ok, !.c.pc = IF ok THEN "am_addall" ELSE "am_create"]

Registered(reg, key) == IF key \in DOMAIN reg THEN reg[key] ELSE 0

\* Lines 457-462: the new counter is registered under its name and stored in
\* the map. outcome is what the collaborators make of it: "stored"; "panic"
\* when the backend refuses a name registered before; "fatal" when the runtime
\* detects the unsynchronized access to the map.
amCreate(w, outcome) ==
    IF w.c.pc # "am_create" THEN w
    ELSE IF outcome = "fatal" THEN [w EXCEPT !.fatal = TRUE]
    ELSE IF outcome = "panic" THEN [w EXCEPT !.c.pc = "panicked"]
    ELSE [w EXCEPT !.reg = (w.c.amKey :> (Registered(w.reg, w.c.amKey) + 1)) @@ w.reg,
                   !.mqc = (w.c.amKey :> 0) @@ w.mqc,
                   !.c.pc = "am_addall"]

\* Line 464: metrics_query_count["all"].Add(1)
amAddAll(w) ==
    IF w.c.pc # "am_addall" THEN w
    ELSE [w EXCEPT !.mqc[ALL] = @ + 1, !.c.pc = "am_addkey"]

\* Line 465: metrics_query_count[key].Add(1)
amAddKey(w) ==
    IF w.c.pc # "am_addkey" THEN w
    ELSE [w EXCEPT !.mqc[w.c.amKey] = @ + 1, !.c.pc = "done"]

\* addMetrics run without interruption.
addMetrics(w, en, uri) ==
    amAddKey(amAddAll(amCreate(amLookup(amEnter(w, en, uri)), "stored")))

\* ------------------------------------------------------------ the inputs
Name(verb, v) == verb \o FromInt(v)

ReservedFields == {UserIdFieldName, AdminUserIdFieldName, ResIdFieldName,
                   ContentFieldName, RequestFieldName, ConfVerFieldName}

FieldKind(n) == IF n \in {ContentFieldName, RequestFieldName} THEN "Ptr" ELSE "Int64"

\* The type of a method func(*T) (...) whose T has the reserved fields R, each
\* of its required kind, and the query field Page.
ShapeOf(R, anon) ==
    [numIn |-> 1, isPtr |-> TRUE, dummy |-> FALSE, anonTag |-> anon,
     requestIsHttp |-> TRUE,
     fields |-> [n \in R \cup {PageFieldName} |-> FieldKind(n)]]

\* func(*appgo.DummyInput) (...)
DummyShape ==
    [numIn |-> 1, isPtr |-> TRUE, dummy |-> TRUE, anonTag |-> FALSE,
     requestIsHttp |-> TRUE, fields |-> NoFields]

PlainShape == ShapeOf({}, FALSE)

ValidShapes ==
    {ShapeOf(R, a) : <<R, a>> \in {x \in (SUBSET ReservedFields) \X BOOLEAN :
                                      x[2] => UserIdFieldName \in x[1]}}
    \cup {DummyShape}

\* Method types that break a rule of newHttpFunc.
InvalidShapes ==
    {[PlainShape EXCEPT !.numIn = 2],
     [PlainShape EXCEPT !.isPtr = FALSE],
     [ShapeOf({UserIdFieldName}, FALSE) EXCEPT !.fields[UserIdFieldName] = "String"],
     [ShapeOf({ContentFieldName}, FALSE) EXCEPT !.fields[ContentFieldName] = "Struct"],
     [ShapeOf({RequestFieldName}, FALSE) EXCEPT !.requestIsHttp = FALSE]}

PathA == <<"/", "a">>

TemplateT == <<"t">>

VersionedNames == {GET, Name(GET, 2), Name(GET, 3), Name(GET, 23)}

NameUniverse == {GET, Name(GET, 2), Name(GET, 3), Name(GET, 23), POST, HTML}

Metas == {[hasMeta |-> FALSE, path |-> <<>>, template |-> <<>>],
          [hasMeta |-> TRUE, path |-> <<>>, template |-> TemplateT],
          [hasMeta |-> TRUE, path |-> PathA, template |-> TemplateT]}

mkFuncSet(meta, names, shape) ==
    [hasMeta |-> meta.hasMeta, path |-> meta.path, template |-> meta.template,
     methods |-> [n \in names |-> shape]]

GoodMeta == [hasMeta |-> TRUE, path |-> PathA, template |-> TemplateT]

\* Handler sets: every valid input shape under a fixed set of method names,
\* and every set of method names under a plain or an invalid shape and every
\* META variant.
FuncSets ==
    {mkFuncSet(GoodMeta, names, sh) : names \in {VersionedNames, {HTML}}, sh \in ValidShapes}
    \cup {mkFuncSet(m, names, sh) : m \in Metas, names \in SUBSET NameUniverse,
                                   sh \in {PlainShape} \cup InvalidShapes}

HandlerTypes == {0, HandlerTypeJson, HandlerTypeHtml}

NoFuncSet == mkFuncSet(GoodMeta, {}, PlainShape)

Query(keys, v) == [k \in keys |-> v]

Returns ==
    {[rl |-> 1, data |-> "", tmpl |-> "", err |-> e] :
        e \in {NilErr, ApiErr(ECodeBadRequest, "X"), OtherErr("boom")}}
    \cup {[rl |-> 2, data |-> "d1", tmpl |-> "", err |-> e] :
        e \in {NilErr, ApiErr(ECodeBadRequest, "X"), ApiErr(ECodeRedirect, "/login"),
               OtherErr("boom")}}
    \cup {[rl |-> 3, data |-> "d1", tmpl |-> "tmplA", err |-> e] :
        e \in {NilErr, ApiErr(ECodeRedirect, "/login"), ApiErr(ECodeForbidden, "F")}}
    \cup {[rl |-> n, data |-> "", tmpl |-> "", err |-> NilErr] : n \in {0, 4}}

\* What requests, collaborators and handlers may supply to one ServeHTTP call.
FullInputs ==
    [methods |-> {GET, POST},
     versions |-> {<<>>, <<"1">>, <<"2">>, <<"3">>, <<"2", "3">>, <<"1", "0", "0">>},
     queries |-> {Query({}, <<>>), Query({PageFieldName}, <<"5">>),
                  Query({PageFieldName}, <<"x">>), Query({"Zzz"}, <<"1">>),
                  Query({UserIdFieldName, AdminUserIdFieldName, ResIdFieldName},
                        <<"6", "6">>)},
     tokens |-> {"", "tokU", "tokA", "tokZ"},
     ids |-> {<<>>, <<"0">>, <<"7">>, <<"x">>},
     bodies |-> {NoBody, [ok |-> TRUE, val |-> 5]},
     confVers |-> {<<>>, <<"3">>},
     returns |-> Returns,
     uris |-> {PathA}]

\* The requests of the metrics collector's check: any verb on one route, with
\* and without a query string.
RouteInputs ==
    [methods |-> {GET, POST},
     versions |-> {<<>>},
     queries |-> {Query({}, <<>>)},
     tokens |-> {""},
     ids |-> {<<>>},
     bodies |-> {[ok |-> TRUE, val |-> 5]},
     confVers |-> {<<>>},
     returns |-> {[rl |-> 1, data |-> "", tmpl |-> "", err |-> NilErr]},
     uris |-> {PathA, PathA \o <<"?", "p">>}]

\* The values a step reads: all of S when it reads its input, one of them
\* (which it ignores) when it does not.
ReadSet(reads, S) == IF reads THEN S ELSE {CHOOSE x \in S : TRUE}

\* Every state in which the body of ServeHTTP (lines 327-441) can leave a call
\* by worker i on descriptor hh, over the inputs U: the steps in sequence, each
\* over the inputs it reads.
ServeOutcomes(hh, i, U) ==
    LET S1 == {lookupStep(newCtx(m), hh, v) : m \in U.methods, v \in U.versions}
        S2 == UNION {{decodeStep(c, q) :
                        q \in ReadSet(c.pc = "decode" /\ ~c.f.dummyInput, U.queries)} :
                     c \in S1}
        S3 == UNION {{authStep(c, x[1], x[2]) :
                        x \in ReadSet(c.pc = "auth" /\ (c.f.requireAuth \/ c.f.requireAdmin),
                                      U.tokens \X BOOLEAN)} :
                     c \in S2}
        S4 == UNION {{resIdStep(c, x) :
                        x \in ReadSet(c.pc = "resid" /\ c.f.hasResId, U.ids)} :
                     c \in S3}
        S5 == UNION {{contentStep(c, x) :
                        x \in ReadSet(c.pc = "content" /\ c.f.hasContent, U.bodies)} :
                     c \in S4}
        S6 == UNION {{injectStep(c, i, x) :
                        x \in ReadSet(c.pc = "inject" /\ c.f.hasConfVer, U.confVers)} :
                     c \in S5}
    IN  UNION {{invokeStep(c, hh, x) : x \in ReadSet(c.pc = "invoke", U.returns)} :
               c \in S6}

\* ---------------------------------------------------------------- the state
VARIABLES
    boot,                 \* "boot", "serving", or "panicked" (log.Panicln)
    panicMsg,             \* the message of the panic
    funcSet,              \* the handler set given to newHandler
    htype,                \* the output kind given to newHandler
    h,                    \* the descriptor newHandler returned
    enable,               \* appgo.Conf.Prometheus.Enable
    conc,                 \* how many requests the host serves at a time
    req,                  \* worker -> the state of its ServeHTTP call
    metrics_req_dur,      \* the number of observed durations
    metrics_query_count,  \* key -> the value of the key's counter
    registered,           \* counter name -> the number of its registrations
    fatal,                \* the runtime has stopped the process
    started,              \* requests dispatched while metrics are enabled
    entered               \* key -> addMetrics calls that computed the key

vars == <<boot, panicMsg, funcSet, htype, h, enable, conc, req, metrics_req_dur,
          metrics_query_count, registered, fatal, started, entered>>

Procs == 1..NumProcs

Busy == {i \in Procs : req[i].pc # "idle"}

\* The host hands a request to a free worker; which one is immaterial.
FreeProc(i) == req[i].pc = "idle" /\ \A j \in Procs : j < i => req[j].pc # "idle"

World(i) == [c |-> req[i], dur |-> metrics_req_dur, mqc |-> metrics_query_count,
             reg |-> registered, fatal |-> fatal]

SetWorld(i, w) ==
    /\ req' = [req EXCEPT ![i] = w.c]
    /\ metrics_req_dur' = w.dur
    /\ metrics_query_count' = w.mqc
    /\ registered' = w.reg
    /\ fatal' = w.fatal

Count(f, k) == IF k \in DOMAIN f THEN f[k] ELSE 0

\* init() (lines 304-322): the "all" counter exists iff metrics are enabled.
MetricsInit(en) ==
    /\ metrics_req_dur = 0
    /\ metrics_query_count = IF en THEN (ALL :> 0) ELSE NoCounters
    /\ registered = NoCounters
    /\ fatal = FALSE
    /\ started = 0
    /\ entered = NoCounters

\* The process before newHandler, with metrics disabled and one request served
\* at a time.
Init ==
    /\ boot = "boot"
    /\ panicMsg = ""
    /\ funcSet = NoFuncSet
    /\ htype = 0
    /\ h = NoHandler
    /\ enable = FALSE
    /\ conc = 1
    /\ req = [i \in Procs |-> IdleCtx]
    /\ MetricsInit(FALSE)

\* newHandler(funcSet, htype, ts, renderer)
NewHandler ==
    /\ boot = "boot"
    /\ \E fs \in FuncSets, ht \in HandlerTypes :
         LET r == newHandler(fs, ht)
         IN  /\ funcSet' = fs
             /\ htype' = ht
             /\ h' = r.h
             /\ panicMsg' = r.panic
             /\ boot' = IF r.panic = "" THEN "serving" ELSE "panicked"
    /\ UNCHANGED <<enable, conc, req, metrics_req_dur, metrics_query_count,
                   registered, fatal, started, entered>>

CanServe(i) ==
    /\ boot = "serving"
    /\ ~fatal
    /\ FreeProc(i)
    /\ Cardinality(Busy) < conc
    /\ enable => started < MaxCount

NoteEntered(w) ==
    entered' = IF w.c.amKey = <<>> THEN entered
               ELSE (w.c.amKey :> (Count(entered, w.c.amKey) + 1)) @@ entered

\* handler.ServeHTTP (lines 324-442) with its deferred addMetrics, served
\* without another request in between.
ServeHTTP(i) ==
    /\ CanServe(i)
    /\ \E c \in ServeOutcomes(h, i, FullInputs), uri \in FullInputs.uris :
         LET w == addMetrics([World(i) EXCEPT !.c = c], enable, uri)
         IN  SetWorld(i, w) /\ NoteEntered(w)
    /\ started' = IF enable THEN started + 1 ELSE started
    /\ UNCHANGED <<boot, panicMsg, funcSet, htype, h, enable, conc>>

\* The call has returned and the host has sent the response.
Complete(i) ==
    /\ req[i].pc \in {"done", "panicked"}
    /\ ~fatal
    /\ req' = [req EXCEPT ![i] = IdleCtx]
    /\ UNCHANGED <<boot, panicMsg, funcSet, htype, h, enable, conc, metrics_req_dur,
                   metrics_query_count, registered, fatal, started, entered>>

Next ==
    \/ NewHandler
    \/ \E i \in Procs : ServeHTTP(i)
    \/ \E i \in Procs : Complete(i)

Spec == Init /\ [][Next]_vars

\* ------------------------------------------- concurrent requests, metrics
RouteFuncSet == mkFuncSet(GoodMeta, {GET}, DummyShape)

\* A served route, metrics enabled or not, and as many requests at a time as
\* the host has workers.
InitMetrics ==
    /\ boot = "serving"
    /\ panicMsg = ""
    /\ funcSet = RouteFuncSet
    /\ htype = HandlerTypeJson
    /\ h = newHandler(RouteFuncSet, HandlerTypeJson).h
    /\ enable \in BOOLEAN
    /\ conc = NumProcs
    /\ req = [i \in Procs |-> IdleCtx]
    /\ MetricsInit(enable)

\* The body of handler.ServeHTTP (lines 327-441), which reads and writes
\* nothing that another request can see; the deferred addMetrics is pending.
ServeBody(i) ==
    /\ CanServe(i)
    /\ \E c \in ServeOutcomes(h, i, RouteInputs) : req' = [req EXCEPT ![i] = c]
    /\ started' = IF enable THEN started + 1 ELSE started
    /\ UNCHANGED <<boot, panicMsg, funcSet, htype, h, enable, conc, metrics_req_dur,
                   metrics_query_count, registered, fatal, entered>>

MapAccessPcs == {"am_lookup", "am_create", "am_addall", "am_addkey"}

\* Another request is about to read or write metrics_query_count.
Racing(i) == \E j \in Procs \ {i} : req[j].pc \in MapAccessPcs

AmStep(i, pc, w) ==
    /\ req[i].pc = pc
    /\ ~fatal
    /\ SetWorld(i, w)
    /\ UNCHANGED <<boot, panicMsg, funcSet, htype, h, enable, conc, started>>

AmEnter(i) ==
    \E uri \in RouteInputs.uris :
        LET w == amEnter(World(i), enable, uri)
        IN  AmStep(i, "defer", w) /\ NoteEntered(w)

AmLookup(i) == AmStep(i, "am_lookup", amLookup(World(i))) /\ UNCHANGED entered

\* The map is written without a lock (line 457): when another request is at
\* the map the runtime may stop the process, and a name created before may be
\* refused by the metrics backend or replace the entry.
AmCreate(i) ==
    /\ \E outcome \in {"stored"}
                     \cup (IF Registered(registered, req[i].amKey) > 0
                           THEN {"panic"} ELSE {})
                     \cup (IF Racing(i) THEN {"fatal"} ELSE {}) :
          AmStep(i, "am_create", amCreate(World(i), outcome))
    /\ UNCHANGED entered

AmAddAll(i) == AmStep(i, "am_addall", amAddAll(World(i))) /\ UNCHANGED entered

AmAddKey(i) == AmStep(i, "am_addkey", amAddKey(World(i))) /\ UNCHANGED entered

NextMetrics ==
    \E i \in Procs :
        \/ ServeBody(i)
        \/ AmEnter(i)
        \/ AmLookup(i)
        \/ AmCreate(i)
        \/ AmAddAll(i)
        \/ AmAddKey(i)
        \/ Complete(i)

SpecMetrics == InitMetrics /\ [][NextMetrics]_vars

\* ------------------------------------------- concurrent requests, by step
PipelineSteps == {"lookup", "decode", "auth", "resid", "content"}

\* The request with tag n in which exactly the steps of B fail.
Req(B, n) ==
    [method |-> IF "lookup" \in B THEN POST ELSE GET,
     version |-> <<>>,
     query |-> IF "decode" \in B THEN Query({PageFieldName}, <<"x">>)
               ELSE Query({PageFieldName, UserIdFieldName, AdminUserIdFieldName,
                           ResIdFieldName, ConfVerFieldName}, <<"6", "6">>),
     token |-> IF "auth" \in B \/ n # 1 THEN "tokU" ELSE "tokA",
     tsOk |-> "auth" \notin B,
     id |-> IF "resid" \in B THEN <<"0">> ELSE FromInt(6 + n),
     body |-> IF "content" \in B THEN NoBody ELSE [ok |-> TRUE, val |-> 4 + n],
     confVer |-> FromInt(2 + n),
     uri |-> PathA]

StepRequests ==
    {Req(B, 1) : B \in {{}, {"content"}, {"resid", "content"},
                        {"auth", "resid", "content"},
                        {"decode", "auth", "resid", "content"}, PipelineSteps}}
    \cup {Req({}, 2)}

StepReturns ==
    {[rl |-> 2, data |-> "d1", tmpl |-> "", err |-> NilErr],
     [rl |-> 1, data |-> "", tmpl |-> "", err |-> OtherErr("boom")],
     [rl |-> 3, data |-> "d1", tmpl |-> "tmplA", err |-> NilErr]}

\* A handler set and its output kind: a structured-data set with GET and a
\* document set with HTML, whose inputs have every reserved field but one of
\* the two identity fields.
StepFuncSets ==
    {[fs |-> mkFuncSet(GoodMeta, {GET},
                       ShapeOf(ReservedFields \ {UserIdFieldName}, FALSE)),
      ht |-> HandlerTypeJson],
     [fs |-> mkFuncSet(GoodMeta, {HTML},
                       ShapeOf(ReservedFields \ {AdminUserIdFieldName}, FALSE)),
      ht |-> HandlerTypeHtml]}

\* A served route, metrics disabled, and as many requests at a time as the
\* host has workers.
InitSteps ==
    /\ boot = "serving"
    /\ panicMsg = ""
    /\ \E d \in StepFuncSets :
          /\ funcSet = d.fs
          /\ htype = d.ht
          /\ h = newHandler(d.fs, d.ht).h
    /\ enable = FALSE
    /\ conc = NumProcs
    /\ req = [i \in Procs |-> IdleCtx]
    /\ MetricsInit(FALSE)

Request_ofLatestWorker(i) ==
    req[CHOOSE j \in Procs : req[j].pc # "idle"
                             /\ \A k \in Procs : req[k].pc # "idle" => k <= j].r

\* The parameter r of the call of worker i (line 324).
Request(i) == req[i].r

servedDescriptor_memoizesMiss(hh, c) ==
    IF c.pc = "defer" /\ ~c.found
    THEN [hh EXCEPT !.funcs = (c.key :> NoFunc) @@ @]
    ELSE hh

\* The descriptor after a step of ServeHTTP that leaves the call in state c:
\* lines 324-442 assign to no field of h and to no entry of h.funcs.
servedDescriptor(hh, c) == hh

\* The host calls ServeHTTP(w, r) on a free worker.
Arrive(i) ==
    /\ CanServe(i)
    /\ \E r \in StepRequests :
          req' = [req EXCEPT ![i] = [newCtx(r.method) EXCEPT !.r = r]]
    /\ UNCHANGED <<boot, panicMsg, funcSet, htype, h, enable, conc, metrics_req_dur,
                   metrics_query_count, registered, fatal, started, entered>>

\* One step of the call of worker i, leaving it in state c.
Step(i, pc, c) ==
    /\ req[i].pc = pc
    /\ req' = [req EXCEPT ![i] = c]
    /\ h' = servedDescriptor(h, c)
    /\ UNCHANGED <<boot, panicMsg, funcSet, htype, enable, conc, metrics_req_dur,
                   metrics_query_count, registered, fatal, started, entered>>

Lookup(i) == Step(i, "lookup", lookupStep(req[i], h, Request(i).version))

DecodeQuery(i) == Step(i, "decode", decodeStep(req[i], Request(i).query))

Authenticate(i) ==
    Step(i, "auth", authStep(req[i], Request(i).token, Request(i).tsOk))

ResourceId(i) == Step(i, "resid", resIdStep(req[i], Request(i).id))

ContentBody(i) == Step(i, "content", contentStep(req[i], Request(i).body))

Inject(i) == Step(i, "inject", injectStep(req[i], i, Request(i).confVer))

Invoke(i) == \E ret \in StepReturns : Step(i, "invoke", invokeStep(req[i], h, ret))

\* The deferred addMetrics (line 325).
Deferred(i) ==
    Step(i, "defer", addMetrics(World(i), enable, Request(i).uri).c)

NextSteps ==
    \E i \in Procs :
        \/ Arrive(i)
        \/ Lookup(i)
        \/ DecodeQuery(i)
        \/ Authenticate(i)
        \/ ResourceId(i)
        \/ ContentBody(i)
        \/ Inject(i)
        \/ Invoke(i)
        \/ Deferred(i)
        \/ Complete(i)

SpecSteps == InitSteps /\ [][NextSteps]_vars

\* ------------------------------------------------- the older dispatcher
\* The older newHttpFunc (lines 178-232): it knows no Request__ and no
\* ConfVer__ field, and its httpFunc (lines 24-34) has no such flags.
newHttpFuncOld(structVal, fieldName) ==
    IF fieldName \notin DOMAIN structVal
    THEN [err |-> "", found |-> FALSE, fun |-> NoFunc]
    ELSE
    LET ftype == structVal[fieldName]
        t == ftype.fields
        bad(msg) == [err |-> msg, found |-> FALSE, fun |-> NoFunc]
    IN  IF ftype.numIn # 1 THEN bad("API func needs to have exact 1 parameter")
        ELSE IF ~ftype.isPtr THEN bad("API func's parameter needs to be a pointer")
        ELSE IF HasField(t, UserIdFieldName) /\ t[UserIdFieldName] # "Int64"
        THEN bad("API func's 2nd parameter needs to be Int64")
        ELSE IF HasField(t, AdminUserIdFieldName) /\ t[AdminUserIdFieldName] # "Int64"
        THEN bad("API func's 2nd parameter needs to be Int64")
        ELSE IF HasField(t, ResIdFieldName) /\ t[ResIdFieldName] # "Int64"
        THEN bad("ResId needs to be Int64")
        ELSE IF HasField(t, ContentFieldName) /\ t[ContentFieldName] # "Ptr"
        THEN bad("Content needs to be a pointer")
        ELSE [err |-> "", found |-> TRUE,
              fun |-> httpFunc(HasField(t, UserIdFieldName),
                               HasField(t, AdminUserIdFieldName),
                               HasField(t, ResIdFieldName),
                               HasField(t, ContentFieldName),
                               FALSE, FALSE,
                               ftype.dummy,
                               HasField(t, UserIdFieldName) /\ ftype.anonTag,
                               t,
                               IF HasField(t, ContentFieldName)
                               THEN t[ContentFieldName] ELSE "",
                               fieldName)]

\* The loop of the older newHandler (lines 164-171) over the verbs.
RECURSIVE verbLoopOld(_, _, _)
verbLoopOld(structVal, methods, acc) ==
    IF methods = <<>> \/ acc.err # "" THEN acc
    ELSE LET m == Head(methods)
             r == newHttpFuncOld(structVal, m)
         IN  verbLoopOld(structVal, Tail(methods),
                 IF r.err # "" THEN [acc EXCEPT !.err = r.err]
                 ELSE IF r.found
                 THEN [acc EXCEPT !.funcs = (m :> r.fun) @@ acc.funcs,
                                  !.supports = Append(acc.supports, m)]
                 ELSE acc)

\* The older newHandler (lines 148-176): [panic, h], h = [path, funcs, supports].
newHandlerOld(fset) ==
    LET fail(msg) == [panic |-> msg,
                      h |-> [path |-> <<>>, funcs |-> NoFuncs, supports |-> <<>>]]
    IN  IF ~fset.hasMeta THEN fail("Bad API path")
        ELSE IF fset.path = <<>> THEN fail("Empty API path")
        ELSE LET acc == verbLoopOld(fset.methods, <<GET, POST, PUT, DELETE>>,
                                    [funcs |-> NoFuncs, supports |-> <<>>, err |-> ""])
             IN  IF acc.err # "" THEN fail(acc.err)
                 ELSE IF Len(acc.supports) = 0 THEN fail("API supports no HTTP method")
                 ELSE [panic |-> "",
                       h |-> [path |-> fset.path, funcs |-> acc.funcs,
                              supports |-> acc.supports]]

\* schema.NewDecoder() as the older variant leaves it (line 22, no
\* IgnoreUnknownKeys): a query key that names no field of the input struct is
\* an error, as is a value that is not a number.
DecodeOld(t, query) ==
    LET d == Decode(t, query)
    IN  [err |-> d.err \/ \E k \in DOMAIN query : k \notin DOMAIN t, s |-> d.s]

\* Lines 44-46: f := h.funcs[r.Method] is nil for a verb without binding, and
\* f.dummyInput then dereferences the nil pointer: the call panics.
lookupStepOld(c, hh) ==
    IF c.pc # "lookup" THEN c
    ELSE LET c1 == [c EXCEPT !.ver = 1, !.key = c.Method]
         IN  IF c.Method \notin DOMAIN hh.funcs THEN [c1 EXCEPT !.pc = "panicked"]
             ELSE [c1 EXCEPT !.found = TRUE, !.f = hh.funcs[c.Method], !.pc = "decode"]

\* Lines 45-54.
decodeStepOld(c, query) ==
    IF c.pc # "decode" THEN c
    ELSE IF c.f.dummyInput THEN [c EXCEPT !.input = NoInput, !.pc = "auth"]
    ELSE LET d == DecodeOld(c.f.inputType, query)
         IN  IF d.err THEN renderError(c, ECodeBadRequest, "schema: conversion error")
             ELSE [c EXCEPT !.input = [nil |-> FALSE, s |-> d.s],
                            !.qinput = [nil |-> FALSE, s |-> d.s], !.pc = "auth"]

\* Lines 107-133: the call and the rendering of what it returns; the call
\* follows the content step directly.
invokeStepOld(c, ret) ==
    IF c.pc # "inject" THEN c
    ELSE LET c1 == [c EXCEPT !.invoked = @ + 1, !.called = c.f.funcValue,
                             !.args = c.input, !.writesAtCall = c.writes,
                             !.ret = ret]
             rl == ret.rl
         IN  IF rl = 0 \/ rl > 2
             THEN renderError(c1, ECodeInternal, "Bad api-func format")
             ELSE IF ret.err.kind = "nil"
             THEN IF rl = 2 THEN renderData(c1, ret.data)
                  ELSE renderData(c1, EmptyObject)
             ELSE IF ret.err.kind # "api"
             THEN [c1 EXCEPT !.pc = "defer"]
             ELSE renderError(c1, ret.err.code, ret.err.msg)

\* The older ServeHTTP (lines 43-134) on request r, the handler returning ret.
ServeHTTPOld(hh, r, ret) ==
    LET c0 == [newCtx(r.method) EXCEPT !.r = r]
        c1 == decodeStepOld(lookupStepOld(c0, hh), r.query)
        c2 == contentStep(resIdStep(authStep(c1, r.token, r.tsOk), r.id), r.body)
        c3 == invokeStepOld(c2, ret)
    IN  IF c3.pc = "defer" THEN [c3 EXCEPT !.pc = "done"] ELSE c3

\* The versioned ServeHTTP (lines 324-442) of worker i on request r, the
\* handler returning ret, with metrics disabled.
ServeHTTPOn(hh, i, r, ret) ==
    LET c0 == [newCtx(r.method) EXCEPT !.r = r]
        c1 == decodeStep(lookupStep(c0, hh, r.version), r.query)
        c2 == contentStep(resIdStep(authStep(c1, r.token, r.tsOk), r.id), r.body)
        c3 == invokeStep(injectStep(c2, i, r.confVer), hh, ret)
    IN  IF c3.pc = "defer" THEN [c3 EXCEPT !.pc = "done"] ELSE c3

\* Inputs with only the user-id, admin-id, resource-id and content fields.
CommonShapes ==
    {ShapeOf(R, a) :
        <<R, a>> \in {x \in (SUBSET {UserIdFieldName, AdminUserIdFieldName,
                                      ResIdFieldName, ContentFieldName}) \X BOOLEAN :
                         x[2] => UserIdFieldName \in x[1]}}
    \cup {DummyShape}

VariantFuncSets ==
    {mkFuncSet(GoodMeta, names, sh) : names \in {{GET}, {GET, POST}}, sh \in CommonShapes}

\* Requests without version header.
VariantRequests ==
    {[method |-> m, version |-> <<>>, query |-> q, token |-> t[1], tsOk |-> t[2],
      id |-> id, body |-> b, confVer |-> <<>>, uri |-> PathA] :
        m \in {GET, POST, DELETE},
        q \in {Query({}, <<>>), Query({PageFieldName}, <<"5">>),
               Query({PageFieldName}, <<"x">>), Query({"Zzz"}, <<"1">>)},
        t \in {<<"", FALSE>>, <<"tokU", TRUE>>, <<"tokA", TRUE>>},
        id \in {<<"0">>, <<"7">>},
        b \in {NoBody, [ok |-> TRUE, val |-> 5]}}

VariantReturns ==
    {[rl |-> 1, data |-> "", tmpl |-> "", err |-> NilErr],
     [rl |-> 2, data |-> "d1", tmpl |-> "", err |-> NilErr],
     [rl |-> 2, data |-> "d1", tmpl |-> "", err |-> ApiErr(ECodeBadRequest, "X")],
     [rl |-> 3, data |-> "d1", tmpl |-> "tmplA", err |-> NilErr]}

\* The worker that runs the versioned dispatcher, and the one that runs the
\* older dispatcher on the same request.
Versioned == 1

Older == Versioned + 1

\* One handler set registered with both variants.
InitVariants ==
    /\ boot = "serving"
    /\ panicMsg = ""
    /\ funcSet \in VariantFuncSets
    /\ htype = HandlerTypeJson
    /\ h = newHandler(funcSet, HandlerTypeJson).h
    /\ enable = FALSE
    /\ conc = NumProcs
    /\ req = [i \in Procs |-> IdleCtx]
    /\ MetricsInit(FALSE)

\* The same request is served by the versioned and by the older dispatcher,
\* and the handler returns the same values to both.
ServeVariants ==
    /\ boot = "serving"
    /\ \A i \in Procs : req[i].pc = "idle"
    /\ \E r \in VariantRequests, ret \in VariantReturns :
          req' = [req EXCEPT ![Versioned] = ServeHTTPOn(h, Versioned, r, ret),
                             ![Older] = ServeHTTPOld(newHandlerOld(funcSet).h, r, ret)]
    /\ UNCHANGED <<boot, panicMsg, funcSet, htype, h, enable, conc, metrics_req_dur,
                   metrics_query_count, registered, fatal, started, entered>>

NextVariants ==
    \/ ServeVariants
    \/ \E i \in Procs : Complete(i)

SpecVariants == InitVariants /\ [][NextVariants]_vars

\* ------------------------------------------------------------------ claims
Returned(c) == c.pc = "done"

IsError(c, code) == c.resp.kind = "error" /\ c.resp.code = code /\ c.writes = 1

Verbs == {GET, POST, PUT, DELETE}

\* C1: a request with verb V and version header v in 1..99 reaches exactly the
\* binding the descriptor stores under V (v = 1) or V followed by v (v >= 2);
\* when the map has no such key the response is NotFound "Bad API version" and
\* nothing is invoked.
C1_DispatchByMethodKey ==
    \A i \in Procs :
        LET c == req[i]
            k == IF c.ver = 1 THEN c.Method ELSE Name(c.Method, c.ver)
        IN  (Returned(c) /\ c.ver \in 1..maxVersion) =>
               IF k \in DOMAIN h.funcs
               THEN /\ c.found
                    /\ c.f = h.funcs[k]
                    /\ c.invoked > 0 => c.called = h.funcs[k].funcValue
                    /\ ~(c.resp.kind = "error" /\ c.resp.msg = "Bad API version")
               ELSE /\ c.invoked = 0
                    /\ IsError(c, ECodeNotFound)
                    /\ c.resp.msg = "Bad API version"

\* C1 witness: a version-23 request has been served by the handler bound under
\* GET23.
C1_Witness ==
    \E i \in Procs :
        /\ Returned(req[i])
        /\ req[i].ver = 23
        /\ req[i].invoked = 1
        /\ req[i].called = Name(GET, 23)

\* C2: after the registration of a structured-data handler set the keys of the
\* descriptor's map are exactly the names verb / verb+version (version 1..99)
\* that are methods of the handler set, each bound to the method of that name.
C2_RegistersEveryVersion ==
    (boot = "serving" /\ h.htype = HandlerTypeJson) =>
        /\ DOMAIN h.funcs =
              {n \in DOMAIN funcSet.methods :
                  \E verb \in Verbs, v \in 1..maxVersion :
                      n = IF v = 1 THEN verb ELSE Name(verb, v)}
        /\ \A k \in DOMAIN h.funcs : h.funcs[k].funcValue = k

\* C3 as stated: a request with any version header >= 2, values above 99
\* included, is served only by the handler registered for verb+version, else
\* NotFound "Bad API version"; never by the bare-verb handler.
C3_AnyVersionExact ==
    \A i \in Procs :
        LET c == req[i]
        IN  (Returned(c) /\ c.ver >= 2) =>
               /\ c.invoked > 0 => c.called = Name(c.Method, c.ver)
               /\ Name(c.Method, c.ver) \notin DOMAIN h.funcs =>
                     /\ c.invoked = 0
                     /\ IsError(c, ECodeNotFound)
                     /\ c.resp.msg = "Bad API version"

\* C3 amended: a version header in 2..99 is served only by the handler
\* registered under verb+version, else NotFound "Bad API version", never by the
\* bare-verb handler; a version header above 99 selects the bare-verb key, as
\* version 1 does.
C3_VersionInRangeExact ==
    \A i \in Procs :
        LET c == req[i]
        IN  Returned(c) =>
               /\ c.ver \in 2..maxVersion =>
                     /\ c.key = Name(c.Method, c.ver)
                     /\ c.invoked > 0 => c.called = Name(c.Method, c.ver)
                     /\ Name(c.Method, c.ver) \notin DOMAIN h.funcs =>
                           /\ c.invoked = 0
                           /\ IsError(c, ECodeNotFound)
                           /\ c.resp.msg = "Bad API version"
               /\ c.ver > maxVersion =>
                     /\ c.key = c.Method
                     /\ c.found <=> c.Method \in DOMAIN h.funcs
                     /\ c.invoked > 0 => c.called = h.funcs[c.Method].funcValue

\* C3 witness: a version-100 request has been served by the bare GET handler
\* of a descriptor that also binds GET2.
C3_Witness ==
    \E i \in Procs :
        /\ Returned(req[i])
        /\ req[i].ver = 100
        /\ req[i].invoked = 1
        /\ req[i].called = GET
        /\ Name(GET, 2) \in DOMAIN h.funcs

\* C4: a binding with requireAdmin, whatever its other flags, is invoked only
\* when the Authenticator returned a non-zero user with the web-admin role, and
\* then the admin-id slot holds that user; otherwise nothing is invoked.
C4_AdminAlwaysChecked ==
    \A i \in Procs :
        LET c == req[i]
        IN  (c.f.requireAdmin /\ c.invoked > 0) =>
               /\ c.authCalls > 0
               /\ c.user # 0
               /\ c.role = RoleWebAdmin
               /\ c.args.s[AdminUserIdFieldName] = c.user

\* C5: with requireAuth and not allowAnonymous, a call whose Authenticator
\* yields user 0 answers Unauthorized and invokes nothing.
C5_UnauthenticatedRefused ==
    \A i \in Procs :
        LET c == req[i]
        IN  (Returned(c) /\ c.f.requireAuth /\ ~c.f.allowAnonymous
                /\ c.authCalls > 0 /\ c.user = 0) =>
               /\ IsError(c, ECodeUnauthorized)
               /\ c.invoked = 0

\* C5 witness: a token that decodes to a user but is rejected by the token
\* store has been refused.
C5_Witness ==
    \E i \in Procs :
        LET c == req[i]
        IN  /\ Returned(c) /\ c.f.requireAuth /\ ~c.f.allowAnonymous
            /\ c.token = "tokU" /\ c.tsCalls = 1 /\ ~c.tsAnswer
            /\ IsError(c, ECodeUnauthorized)

\* C6: whenever a binding with requireAuth is invoked, the user-id slot is the
\* Authenticator's user if that is non-zero, and the anonymous id if it is 0
\* (which needs allowAnonymous); never what the query string put there.
C6_UserIdSlot ==
    \A i \in Procs :
        LET c == req[i]
        IN  (c.f.requireAuth /\ c.invoked > 0) =>
               /\ c.authCalls = 1
               /\ c.user # 0 => c.args.s[UserIdFieldName] = c.user
               /\ c.user = 0 =>
                     c.f.allowAnonymous /\ c.args.s[UserIdFieldName] = AnonymousId

\* C6 witness: the query string supplied UserId__=66 and the handler was
\* invoked for an anonymous caller.
C6_Witness ==
    \E i \in Procs :
        LET c == req[i]
        IN  /\ c.f.requireAuth /\ c.invoked = 1 /\ c.user = 0
            /\ c.qinput.s[UserIdFieldName] = 66
            /\ c.args.s[UserIdFieldName] = AnonymousId

\* C7: authByHeader returns a non-zero user only when the token decodes to a
\* non-zero user and the token store validates it, and then exactly the
\* decoded (user, role); otherwise (0, 0). The store is not consulted when the
\* token decodes to user 0.
C7_AuthByHeader ==
    \A i \in Procs :
        LET c == req[i]
            d == TokenValidate(c.token)
        IN  c.authCalls > 0 =>
               /\ d.user = 0 => c.tsCalls = 0 /\ c.user = 0 /\ c.role = 0
               /\ d.user # 0 => c.tsCalls = 1
               /\ (d.user # 0 /\ c.tsAnswer) => c.user = d.user /\ c.role = d.role
               /\ (d.user # 0 /\ ~c.tsAnswer) => c.user = 0 /\ c.role = 0

\* C7 witness: a token that decodes to the web admin was rejected by the store.
C7_Witness ==
    \E i \in Procs :
        LET c == req[i]
        IN  /\ c.authCalls = 1 /\ c.token = "tokA" /\ c.tsCalls = 1 /\ ~c.tsAnswer
            /\ c.user = 0 /\ c.role = 0

\* C8: when the handler's trailing error is non-nil and not an ApiError, the
\* dispatcher writes the error envelope with code Internal and a message other
\* than the error's text; the call does not return without a response.
C8_UnknownErrorRendered ==
    \A i \in Procs :
        LET c == req[i]
        IN  (Returned(c) /\ c.invoked > 0 /\ c.ret.rl \in {1, 2}
                /\ c.ret.err.kind = "other") =>
               /\ IsError(c, ECodeInternal)
               /\ c.resp.msg # c.ret.err.msg

\* C10: with hasResId, a call that reads a path id parsing to 0 answers NotFound
\* and invokes nothing; otherwise the resource-id slot of the handler's input
\* is the parsed id.
C10_ResourceId ==
    \A i \in Procs :
        LET c == req[i]
        IN  /\ (Returned(c) /\ c.f.hasResId /\ c.idReads > 0 /\ IdFromStr(c.idVar) = 0) =>
                  /\ IsError(c, ECodeNotFound)
                  /\ c.resp.msg = ResIdMsg
                  /\ c.invoked = 0
            /\ (c.f.hasResId /\ c.invoked > 0) =>
                  /\ c.idReads = 1
                  /\ IdFromStr(c.idVar) # 0
                  /\ c.args.s[ResIdFieldName] = IdFromStr(c.idVar)

\* C10 witness: the query string supplied ResourceId__=66, the path id was 7
\* and the handler was invoked.
C10_Witness ==
    \E i \in Procs :
        LET c == req[i]
        IN  /\ c.f.hasResId /\ c.invoked = 1
            /\ c.qinput.s[ResIdFieldName] = 66
            /\ c.idVar = <<"7">>
            /\ c.args.s[ResIdFieldName] = 7

\* C9: with metrics enabled, once two requests to the same unseen route have
\* both completed, however their addMetrics calls interleaved, there is one
\* counter for the route, created once and incremented twice, and the "all"
\* counter has been incremented twice.
C9_NoLostIncrement ==
    \A k \in DOMAIN entered :
        (enable /\ entered[k] = 2 /\ started = 2
            /\ \A i \in Procs : req[i].pc \in {"idle", "done"}) =>
           /\ Registered(registered, k) = 1
           /\ Count(metrics_query_count, k) = 2
           /\ metrics_query_count[ALL] = 2

\* C11: with hasContent, a call whose body fails to decode answers BadRequest
\* and invokes nothing; a call whose body decodes invokes the handler with the
\* content slot holding the decoded value.
C11_ContentBody ==
    \A i \in Procs :
        LET c == req[i]
        IN  /\ (Returned(c) /\ c.f.hasContent /\ c.bodyReads > 0 /\ ~c.body.ok) =>
                  /\ IsError(c, ECodeBadRequest)
                  /\ c.invoked = 0
            /\ (Returned(c) /\ c.f.hasContent /\ c.bodyReads > 0 /\ c.body.ok) =>
                  /\ c.invoked = 1
                  /\ c.args.s[ContentFieldName] = c.body.val
            /\ (c.f.hasContent /\ c.invoked > 0) => c.bodyReads = 1 /\ c.body.ok

\* C11 witness: a body that does not decode was refused with BadRequest after
\* the caller had been authenticated, and nothing was invoked.
C11_Witness ==
    \E i \in Procs :
        LET c == req[i]
        IN  /\ Returned(c) /\ c.f.hasContent /\ c.bodyReads = 1 /\ ~c.body.ok
            /\ c.f.requireAuth /\ c.user # 0
            /\ IsError(c, ECodeBadRequest) /\ c.invoked = 0

RedirectReturned(c) ==
    c.invoked > 0 /\ c.ret.err.kind = "api" /\ c.ret.err.code = ECodeRedirect

\* C12: when the handler returns an ApiError with code Redirect, a document
\* descriptor answers with a redirect to the URL in the error's message and
\* renders neither template nor error body, whatever data and template name
\* came with the error; a structured-data descriptor never redirects and
\* answers with the error envelope of that error.
C12_Redirect ==
    \A i \in Procs :
        LET c == req[i]
        IN  (Returned(c) /\ RedirectReturned(c)) =>
               IF h.htype = HandlerTypeHtml
               THEN /\ c.resp = [kind |-> "redirect", code |-> 0, msg |-> c.ret.err.msg,
                                 data |-> "", tmpl |-> ""]
                    /\ c.writes = 1
               ELSE /\ c.resp.kind = "error"
                    /\ c.writes = 1
                    /\ c.ret.rl \in {1, 2} =>
                          c.resp = [kind |-> "error", code |-> ECodeRedirect,
                                    msg |-> c.ret.err.msg, data |-> "", tmpl |-> ""]

\* C12 witness: a document handler returned (d1, tmplA, Redirect "/login") and
\* the response is the redirect to /login.
C12_Witness ==
    \E i \in Procs :
        LET c == req[i]
        IN  /\ Returned(c) /\ h.htype = HandlerTypeHtml /\ c.invoked = 1
            /\ c.ret = [rl |-> 3, data |-> "d1", tmpl |-> "tmplA",
                        err |-> ApiErr(ECodeRedirect, "/login")]
            /\ c.resp.kind = "redirect" /\ c.resp.msg = "/login"

\* C13: a structured-data descriptor answers by what the handler returned:
\* (data, nil) gives data as the payload; a single nil error gives the empty
\* object; an ApiError with code c and message m gives the error envelope with
\* exactly c and m, and the data returned with it is not rendered.
C13_StructuredResponse ==
    \A i \in Procs :
        LET c == req[i]
        IN  (Returned(c) /\ h.htype = HandlerTypeJson /\ c.invoked > 0
                /\ c.ret.rl \in {1, 2}) =>
               /\ (c.ret.rl = 2 /\ c.ret.err.kind = "nil") =>
                     /\ c.resp = [kind |-> "data", code |-> 0, msg |-> "",
                                  data |-> c.ret.data, tmpl |-> ""]
                     /\ c.writes = 1
               /\ (c.ret.rl = 1 /\ c.ret.err.kind = "nil") =>
                     /\ c.resp = [kind |-> "data", code |-> 0, msg |-> "",
                                  data |-> EmptyObject, tmpl |-> ""]
                     /\ c.writes = 1
               /\ c.ret.err.kind = "api" =>
                     /\ c.resp = [kind |-> "error", code |-> c.ret.err.code,
                                  msg |-> c.ret.err.msg, data |-> "", tmpl |-> ""]
                     /\ c.writes = 1

\* C13 witness: a structured-data handler returned (d1, BadRequest "X") and the
\* response is the envelope with errcode 40000 and msg X.
C13_Witness ==
    \E i \in Procs :
        LET c == req[i]
        IN  /\ Returned(c) /\ h.htype = HandlerTypeJson /\ c.invoked = 1
            /\ c.ret = [rl |-> 2, data |-> "d1", tmpl |-> "",
                        err |-> ApiErr(ECodeBadRequest, "X")]
            /\ c.resp.kind = "error" /\ c.resp.code = 40000 /\ c.resp.msg = "X"

RECURSIVE SumOver(_, _)
SumOver(f, S) ==
    IF S = {} THEN 0
    ELSE LET k == CHOOSE x \in S : TRUE IN f[k] + SumOver(f, S \ {k})

\* The total of the per-route counters.
RouteTotal == SumOver(metrics_query_count, DOMAIN metrics_query_count \ {ALL})

\* C14: once every request dispatched so far has completed, with metrics
\* enabled each of them has recorded one duration observation, one increment
\* of the "all" counter and one increment of its route's counter, whatever its
\* outcome; with metrics disabled nothing has been recorded.
C14_MetricsOncePerRequest ==
    (\A i \in Procs : req[i].pc = "idle") =>
        IF enable
        THEN /\ metrics_req_dur = started
             /\ metrics_query_count[ALL] = started
             /\ RouteTotal = started
        ELSE /\ metrics_req_dur = 0
             /\ metrics_query_count = NoCounters

\* The method names newHandler looks up whatever the handler set holds: HTML
\* for a document set; each verb and each verb followed by 2 for a
\* structured-data set.
SurelyLookedUp ==
    IF htype = HandlerTypeHtml THEN {HTML}
    ELSE IF htype = HandlerTypeJson THEN Verbs \cup {Name(v, 2) : v \in Verbs}
    ELSE {}

\* C15: newHandler either aborts or returns a descriptor with a non-empty path
\* and at least one binding, each made from a method that obeys the signature
\* and reserved-field rules. It aborts when the set has no META path, when the
\* output kind is neither structured-data nor document, when a structured-data
\* set yields no binding, when a document set has no HTML method, and when a
\* method it looks up breaks a rule.
C15_Registration ==
    /\ boot \in {"boot", "serving", "panicked"}
    /\ boot = "serving" =>
          /\ panicMsg = ""
          /\ h.path # <<>> /\ h.path = funcSet.path
          /\ DOMAIN h.funcs # {}
          /\ \A k \in DOMAIN h.funcs :
                newHttpFunc(funcSet.methods, h.funcs[k].funcValue).found
    /\ boot = "panicked" => panicMsg # "" /\ h = NoHandler
    /\ boot # "boot" =>
          /\ (~funcSet.hasMeta \/ funcSet.path = <<>>) => boot = "panicked"
          /\ htype \notin {HandlerTypeJson, HandlerTypeHtml} => boot = "panicked"
          /\ (htype = HandlerTypeJson
                /\ \A v \in Verbs, n \in 1..maxVersion :
                      (IF n = 1 THEN v ELSE Name(v, n)) \notin DOMAIN funcSet.methods)
                => boot = "panicked"
          /\ (htype = HandlerTypeHtml /\ HTML \notin DOMAIN funcSet.methods)
                => boot = "panicked"
          /\ (\E n \in SurelyLookedUp \cap DOMAIN funcSet.methods :
                 newHttpFunc(funcSet.methods, n).err # "")
                => boot = "panicked"

\* C15 witness: a structured-data set with a META path whose only method is
\* HTML has been refused for having no verb method.
C15_Witness ==
    /\ boot = "panicked" /\ htype = HandlerTypeJson
    /\ funcSet.hasMeta /\ funcSet.path = PathA
    /\ DOMAIN funcSet.methods = {HTML}
    /\ panicMsg = "API supports no HTTP method"

\* The earliest step, in the order lookup, query decoding, authentication or
\* admin check, resource id, content body, that fails for request r on
\* descriptor hh; "none" when no step fails.
FirstFailing(hh, r) ==
    LET key == methodKey(r.method, apiVersionFromHeader(r.version))
    IN  IF key \notin DOMAIN hh.funcs THEN "lookup"
        ELSE LET f == hh.funcs[key]
                 a == authByHeader(r.token, r.tsOk)
             IN  IF ~f.dummyInput /\ Decode(f.inputType, r.query).err THEN "decode"
                 ELSE IF f.requireAuth /\ a.user = 0 /\ ~f.allowAnonymous THEN "auth"
                 ELSE IF ~f.requireAuth /\ f.requireAdmin
                         /\ (a.user = 0 \/ a.role # RoleWebAdmin) THEN "auth"
                 ELSE IF f.hasResId /\ IdFromStr(r.id) = 0 THEN "resid"
                 ELSE IF f.hasContent /\ ~r.body.ok THEN "content"
                 ELSE "none"

\* The response is the error of the given step.
IsErrorOf(c, step) ==
    CASE step = "lookup" -> IsError(c, ECodeNotFound) /\ c.resp.msg = "Bad API version"
      [] step = "decode" -> IsError(c, ECodeBadRequest)
                            /\ c.resp.msg = "schema: conversion error"
      [] step = "auth" -> IsError(c, ECodeUnauthorized)
      [] step = "resid" -> IsError(c, ECodeNotFound) /\ c.resp.msg = ResIdMsg
      [] step = "content" -> IsError(c, ECodeBadRequest)
                             /\ c.resp.msg = "json: cannot decode"

\* No step after the given one has run in call c.
NothingAfter(c, step) ==
    /\ step = "lookup" => c.qinput.nil /\ c.input.nil
    /\ step \in {"lookup", "decode"} => c.authCalls = 0 /\ c.tsCalls = 0
    /\ step \in {"lookup", "decode", "auth"} => c.idReads = 0
    /\ step \in {"lookup", "decode", "auth", "resid"} => c.bodyReads = 0
    /\ step \in PipelineSteps => c.invoked = 0

ShortCircuited(c) ==
    LET ff == FirstFailing(h, c.r)
    IN  c.pc # "idle" =>
           /\ ff # "none" => NothingAfter(c, ff)
           /\ (ff # "none" /\ c.pc \in {"defer", "done"}) => IsErrorOf(c, ff)
           /\ (ff = "none" /\ c.pc \in {"defer", "done"}) => c.invoked = 1

\* The positions a call can take next.
PcAfter(pc) ==
    CASE pc = "idle" -> {"lookup"}
      [] pc = "lookup" -> {"decode", "defer"}
      [] pc = "decode" -> {"auth", "defer"}
      [] pc = "auth" -> {"resid", "defer"}
      [] pc = "resid" -> {"content", "defer"}
      [] pc = "content" -> {"inject", "defer"}
      [] pc = "inject" -> {"invoke"}
      [] pc = "invoke" -> {"defer"}
      [] pc = "defer" -> {"done"}
      [] OTHER -> {"idle"}

\* C16: every call takes its steps in the order lookup, query decoding,
\* authentication or admin check, resource id, content body, injection,
\* invocation; when steps fail for its request the response is the error of
\* the earliest of them, and no step after that one runs: the token store is
\* not consulted, the body is not read, the handler is not invoked.
C16_OrderedShortCircuit ==
    [][\A i \in Procs :
          req'[i] # req[i] =>
             /\ req'[i].pc \in PcAfter(req[i].pc)
             /\ ShortCircuited(req'[i])]_vars

\* C16 witness: a request whose query, token, path id and body are all bad has
\* been answered with the query decoder's BadRequest, unauthenticated and with
\* the path id and the body unread.
C16_Witness ==
    \E i \in Procs :
        LET c == req[i]
        IN  /\ Returned(c)
            /\ c.r = Req({"decode", "auth", "resid", "content"}, 1)
            /\ IsErrorOf(c, "decode")
            /\ c.authCalls = 0 /\ c.idReads = 0 /\ c.bodyReads = 0 /\ c.invoked = 0

\* The reserved fields of the input that the handler of call c by worker i
\* receives are the values derived from the call's own request.
OwnSlots(i, c) ==
    LET r == c.r
        a == authByHeader(r.token, r.tsOk)
        slot(n) == c.args.s[n]
    IN  /\ c.f.requireAuth =>
              slot(UserIdFieldName) = (IF a.user = 0 THEN AnonymousId ELSE a.user)
        /\ (c.f.requireAdmin /\ ~c.f.requireAuth) => slot(AdminUserIdFieldName) = a.user
        /\ c.f.hasResId => slot(ResIdFieldName) = IdFromStr(r.id)
        /\ c.f.hasContent => slot(ContentFieldName) = r.body.val
        /\ c.f.hasRequest => slot(RequestFieldName) = i
        /\ c.f.hasConfVer => slot(ConfVerFieldName) = confVersionFromHeader(r.confVer)

\* C17: however the steps of concurrent calls on one descriptor interleave,
\* the input every handler invocation receives holds in its user-id, admin-id,
\* resource-id, content, raw-request and config-version fields the values of
\* its own request, never those of a request served at the same time.
C17_OwnInput ==
    \A i \in Procs : req[i].invoked > 0 => OwnSlots(i, req[i])

\* C17 witness: two calls whose steps interleaved have both invoked the
\* handler, one with resource id 7 and content 5 and the other with resource
\* id 8 and content 6.
C17_Witness ==
    \E i, j \in Procs :
        /\ i # j
        /\ req[i].invoked = 1 /\ req[j].invoked = 1
        /\ req[i].r = Req({}, 1) /\ req[j].r = Req({}, 2)
        /\ req[i].args.s[ResIdFieldName] = 7 /\ req[i].args.s[ContentFieldName] = 5
        /\ req[j].args.s[ResIdFieldName] = 8 /\ req[j].args.s[ContentFieldName] = 6
        /\ req[i].args.s[RequestFieldName] = i /\ req[j].args.s[RequestFieldName] = j

\* C18: once newHandler has returned, no step of any call, whatever the
\* call's outcome and however concurrent calls interleave, changes the
\* descriptor: path, output kind, template, the method-key map and every
\* binding stay as they are.
C18_DescriptorUnchanged == [][boot = "serving" => h' = h]_vars

\* C18 witness: while one call has invoked its handler and another has been
\* refused for an unbound verb, the descriptor is the one newHandler returned.
C18_Witness ==
    \E i, j \in Procs :
        /\ i # j
        /\ req[i].pc = "done" /\ req[i].invoked = 1
        /\ req[j].pc = "done" /\ ~req[j].found
        /\ IsErrorOf(req[j], "lookup")
        /\ h = newHandler(funcSet, htype).h

\* C19: every call invokes the bound handler at most once and writes at most
\* one response, which is data, an error envelope, a rendered template or a
\* redirect; nothing is written before the handler is invoked; and no step
\* (authentication, token-store validation, path id, body) runs twice.
C19_AtMostOnce ==
    \A i \in Procs :
        LET c == req[i]
        IN  /\ c.invoked <= 1
            /\ c.writes <= 1
            /\ c.writes = 0 <=> c.resp.kind = "none"
            /\ c.resp.kind \in {"none", "data", "error", "html", "redirect"}
            /\ c.invoked > 0 => c.writesAtCall = 0
            /\ c.authCalls <= 1 /\ c.tsCalls <= 1
            /\ c.idReads <= 1 /\ c.bodyReads <= 1

\* C19 witness: a document call has invoked its handler once and written one
\* response, the rendered template, after one authentication, one read of the
\* path id and one read of the body.
C19_Witness ==
    \E i \in Procs :
        LET c == req[i]
        IN  /\ Returned(c) /\ c.invoked = 1 /\ c.writes = 1 /\ c.writesAtCall = 0
            /\ c.resp.kind = "html" /\ c.resp.tmpl = "tmplA"
            /\ c.authCalls = 1 /\ c.tsCalls = 1 /\ c.idReads = 1 /\ c.bodyReads = 1

\* What a call has done for its client and to its handler.
Outcome(c) ==
    [pc |-> c.pc, resp |-> c.resp, writes |-> c.writes, invoked |-> c.invoked,
     called |-> c.called, args |-> c.args]

\* C20: for a structured-data descriptor whose inputs have only the user-id,
\* admin-id, resource-id and content fields, and a request with verb GET,
\* POST, PUT or DELETE and no version header, bound or not, the older and the
\* versioned ServeHTTP end alike: the same error, or the same handler invoked
\* with the same input and the same response.
C20_VariantsEquivalent ==
    (req[Versioned].pc # "idle" /\ req[Older].pc # "idle"
        /\ req[Versioned].r = req[Older].r) =>
       Outcome(req[Versioned]) = Outcome(req[Older])

=============================================================================
